---- MODULE Spec2Model ----
(***************************************************************************)
(* Model of src/experimento.py: the Grover circuit builder                 *)
(* build_grover_circuit(amplitudes, marked_indices, backend=None) run with *)
(* backend=None, and the effect of one oracle block on the computational   *)
(* basis states of the register.                                           *)
(*                                                                         *)
(* A circuit is the sequence of instructions of the QuantumCircuit qc, in  *)
(* the order they are appended.  Each instruction is a record              *)
(*   [op, qubits, clbits]                                                  *)
(* like Qiskit's CircuitInstruction: qc.h(range(n)) and                    *)
(* qc.measure(range(n), range(n)) broadcast to n instructions,             *)
(* qc.initialize(amplitudes, range(n)) and qc.mcx(controls, target) are    *)
(* one instruction each.                                                   *)
(***************************************************************************)
EXTENDS Integers, Sequences, FiniteSets, TLC

VARIABLES pc, marked_indices, qc, M, iterations, it, tix, flipped,
          target, basis, block, gix, psi

vars == <<pc, marked_indices, qc, M, iterations, it, tix, flipped,
          target, basis, block, gix, psi>>

buildVars == <<pc, marked_indices, qc, M, iterations, it, tix, flipped>>
probeVars == <<target, basis, block, gix, psi>>

----------------------------------------------------------------------------
(* Program constants and bounds of the inputs                              *)

\* n_qubits = 10 (build_grover_circuit, line 37)
n_qubits == 10

\* longest marked_indices list enumerated element by element
MaxLen == 2

\* the small marked values are 0..MaxSmall
MaxSmall == 2

\* the oracle is probed for the targets 0..MaxProbe and their complements
MaxProbe == 3

Pow2(e) == 2 ^ e

\* size = 2**n_qubits
size == Pow2(n_qubits)

\* list(range(k))
Range(k) == [i \in 1..k |-> i - 1]

\* the values a marked index is drawn from: small in-range values, the
\* largest in-range value, and values outside [0, 2**n_qubits)
MarkedValues == (0..MaxSmall) \cup {size - 1, size, 2 * size, -1}

ShortLists == UNION {[1..l -> MarkedValues] : l \in 0..MaxLen}

\* marked_indices = [0, 14, 21, 25, 30, 32, 37, 40, 43, 48] * 5
ZeroIndices == <<0, 14, 21, 25, 30, 32, 37, 40, 43, 48>>
ZeroIndicesTimes5 ==
    ZeroIndices \o ZeroIndices \o ZeroIndices \o ZeroIndices \o ZeroIndices

\* list(range(50)) is the script's configuration; list(range(632)) is the
\* shortest list of distinct in-range values for which int() truncates to 0
RangeLists == {Range(50), Range(632)}

InputLists == ShortLists \cup RangeLists \cup {ZeroIndicesTimes5}

----------------------------------------------------------------------------
(* Instructions                                                            *)

Instr(op, qubits, clbits) == [op |-> op, qubits |-> qubits, clbits |-> clbits]

X(i) == Instr("x", <<i>>, <<>>)
H(i) == Instr("h", <<i>>, <<>>)
\* qc.mcx(control_qubits, target_qubit): controls first, target last
MCX(controls, t) == Instr("mcx", controls \o <<t>>, <<>>)
Measure(q, c) == Instr("measure", <<q>>, <<c>>)
\* qc.initialize(amplitudes, range(n_qubits)): one instruction on all qubits
Initialize == Instr("initialize", Range(n_qubits), <<>>)

\* qc.h(range(n_qubits)), qc.x(range(n_qubits))
HAll == [i \in 1..n_qubits |-> H(i - 1)]
XAll == [i \in 1..n_qubits |-> X(i - 1)]

----------------------------------------------------------------------------
(* format(target, f'0{n_qubits}b') and the bit-flip loops                  *)

RECURSIVE BinDigits(_)
BinDigits(v) ==
    IF v < 2 THEN <<IF v = 1 THEN "1" ELSE "0">>
    ELSE BinDigits(v \div 2) \o <<IF v % 2 = 1 THEN "1" ELSE "0">>

ZeroPad(s, w) ==
    IF Len(s) >= w THEN s ELSE [i \in 1..(w - Len(s)) |-> "0"] \o s

\* sign-aware zero padding to a minimum width; longer values are not cut
Format(t, w) ==
    IF t < 0 THEN <<"-">> \o ZeroPad(BinDigits(-t), w - 1)
    ELSE ZeroPad(BinDigits(t), w)

\* the bits read most significant first, the reversal forgotten
ReversedForgotten(s) == s

\* binary[::-1]
Reversed(s) == [i \in 1..Len(s) |-> s[Len(s) + 1 - i]]

\* the indices i of enumerate(binary[::-1]) with bit == '0', ascending
RECURSIVE ZeroPositionsFrom(_, _)
ZeroPositionsFrom(rev, i) ==
    IF i >= Len(rev) THEN <<>>
    ELSE (IF rev[i + 1] = "0" THEN <<i>> ELSE <<>>)
         \o ZeroPositionsFrom(rev, i + 1)

ZeroPositions(t) == ZeroPositionsFrom(Reversed(Format(t, n_qubits)), 0)

InRegister(i) == i < n_qubits

\* qc.x(i) raises CircuitError for a qubit index outside the register
Raises(t) == \E k \in 1..Len(ZeroPositions(t)) : ~InRegister(ZeroPositions(t)[k])

\* for i, bit in enumerate(binary[::-1]): if bit == '0': qc.x(i)
FlipLoop(t) ==
    LET pos == SelectSeq(ZeroPositions(t), InRegister)
    IN  [k \in 1..Len(pos) |-> X(pos[k])]

\* qc.h(n-1); qc.mcx(list(range(n-1)), n-1); qc.h(n-1)
PhaseFlip ==
    <<H(n_qubits - 1), MCX(Range(n_qubits - 1), n_qubits - 1), H(n_qubits - 1)>>

\* the block without its second bit-flip loop
OracleBlockNoUndo(t) == FlipLoop(t) \o PhaseFlip

\* the body of "for target in marked_indices" (lines 47-56)
OracleBlock(t) == FlipLoop(t) \o PhaseFlip \o FlipLoop(t)

\* the difusor with its two undo layers in the wrong order
DiffusionUndoSwapped == HAll \o XAll \o PhaseFlip \o HAll \o XAll

\* the difusor (lines 59-65)
Diffusion == HAll \o XAll \o PhaseFlip \o XAll \o HAll

\* the measurements with the classical bits in descending order
MeasurementsBitsReversed == [i \in 1..n_qubits |-> Measure(i - 1, n_qubits - i)]

\* qc.measure(range(n_qubits), range(n_qubits))
Measurements == [i \in 1..n_qubits |-> Measure(i - 1, i - 1)]

----------------------------------------------------------------------------
(* iterations = int(math.pi / 4 * math.sqrt(2**n_qubits / max(1, M)))      *)

\* math.pi ** 2 = 9.86960440..., scaled by 10^5
PiSquaredE5 == 986960

Max(a, b) == IF a >= b THEN a ELSE b

\* k <= pi/4 * sqrt(N/m)  <=>  16 k^2 m <= pi^2 N  <=>  16 k^2 m <= floor(pi^2 N)
PiSquaredN == (PiSquaredE5 * size) \div 100000

RECURSIVE FloorSearch(_, _)
FloorSearch(k, m) ==
    IF 16 * (k + 1) * (k + 1) * m <= PiSquaredN THEN FloorSearch(k + 1, m) ELSE k

\* int() truncates; the value is positive, so it is the floor
Iterations(len) == FloorSearch(0, Max(1, len))

----------------------------------------------------------------------------
(* The register's basis states: qubit 0 is the least significant bit       *)

BitOf(b, i) == (b \div Pow2(i)) % 2
FlipBit(b, i) == IF BitOf(b, i) = 1 THEN b - Pow2(i) ELSE b + Pow2(i)

\* the basis state that is all ones after the X gates of a block: its bit i
\* is 0 exactly for the qubits the block flips
RECURSIVE SumPow2(_)
SumPow2(S) == IF S = {} THEN 0
              ELSE LET i == CHOOSE x \in S : TRUE IN Pow2(i) + SumPow2(S \ {i})

Pivot(t) ==
    LET flips == {FlipLoop(t)[k].qubits[1] : k \in 1..Len(FlipLoop(t))}
    IN  SumPow2((0..(n_qubits - 1)) \ flips)

SymDiff(A, B) == (A \ B) \cup (B \ A)

(***************************************************************************)
(* A state vector is a function from the basis states of nonzero amplitude *)
(* to their amplitude.  H is applied without its 1/sqrt(2), so amplitudes  *)
(* stay integers: after the two H of a block every amplitude is doubled.   *)
(***************************************************************************)
Amp(v, b) == IF b \in DOMAIN v THEN v[b] ELSE 0

ApplyX(v, q) == [b \in {FlipBit(a, q) : a \in DOMAIN v} |-> v[FlipBit(b, q)]]

ApplyH(v, q) ==
    LET lo(b) == IF BitOf(b, q) = 1 THEN b - Pow2(q) ELSE b
        hi(b) == lo(b) + Pow2(q)
        amp(b) == IF BitOf(b, q) = 1 THEN Amp(v, lo(b)) - Amp(v, hi(b))
                  ELSE Amp(v, lo(b)) + Amp(v, hi(b))
        cand == {lo(a) : a \in DOMAIN v} \cup {hi(a) : a \in DOMAIN v}
    IN  [b \in {c \in cand : amp(c) # 0} |-> amp(b)]

ApplyMCX(v, qubits) ==
    LET n == Len(qubits)
        t == qubits[n]
        perm(b) == IF \A k \in 1..(n - 1) : BitOf(b, qubits[k]) = 1
                   THEN FlipBit(b, t) ELSE b
    IN  [b \in {perm(a) : a \in DOMAIN v} |-> v[perm(b)]]

----------------------------------------------------------------------------
(* build_grover_circuit, one step per statement or loop body               *)

Idle == /\ target = 0 /\ basis = 0 /\ block = <<>> /\ gix = 0 /\ psi = <<>>

Init ==
    /\ pc = "start"
    /\ marked_indices \in InputLists
    /\ qc = <<>>
    /\ M = 0
    /\ iterations = 0
    /\ it = 0
    /\ tix = 0
    /\ flipped = {}
    /\ Idle

\* lines 38-44
BuildStart ==
    /\ pc = "start"
    /\ qc' = <<Initialize>>
    /\ M' = Len(marked_indices)
    /\ iterations' = Iterations(Len(marked_indices))
    /\ it' = 0
    /\ tix' = 0
    /\ flipped' = {}
    /\ pc' = "loop"
    /\ UNCHANGED <<marked_indices, probeVars>>

\* lines 46-56, one target whose X gates all act on register qubits
OracleStep ==
    /\ pc = "loop"
    /\ it < iterations
    /\ tix < Len(marked_indices)
    /\ ~Raises(marked_indices[tix + 1])
    /\ qc' = qc \o OracleBlock(marked_indices[tix + 1])
    /\ flipped' = SymDiff(flipped, {Pivot(marked_indices[tix + 1])})
    /\ tix' = tix + 1
    /\ UNCHANGED <<pc, marked_indices, M, iterations, it, probeVars>>

\* lines 46-50, a target for which qc.x(i) is called with i >= n_qubits
OracleRaise ==
    /\ pc = "loop"
    /\ it < iterations
    /\ tix < Len(marked_indices)
    /\ Raises(marked_indices[tix + 1])
    /\ qc' = qc \o FlipLoop(marked_indices[tix + 1])
    /\ pc' = "raised"
    /\ UNCHANGED <<marked_indices, M, iterations, it, tix, flipped, probeVars>>

\* lines 58-65, after the last target of the iteration
DiffusionStep ==
    /\ pc = "loop"
    /\ it < iterations
    /\ tix = Len(marked_indices)
    /\ qc' = qc \o Diffusion
    /\ it' = it + 1
    /\ tix' = 0
    /\ flipped' = {}
    /\ UNCHANGED <<pc, marked_indices, M, iterations, probeVars>>

\* lines 67-73 with backend=None
MeasureStep ==
    /\ pc = "loop"
    /\ it = iterations
    /\ qc' = qc \o Measurements
    /\ pc' = "done"
    /\ UNCHANGED <<marked_indices, M, iterations, it, tix, flipped, probeVars>>

Next == BuildStart \/ OracleStep \/ OracleRaise \/ DiffusionStep \/ MeasureStep

Spec == Init /\ [][Next]_vars

----------------------------------------------------------------------------
(* The circuit a call returns, as a function of marked_indices             *)

RECURSIVE BlocksBetween(_, _, _)
\* the blocks of the targets marked[lo..hi], in list order
BlocksBetween(marked, lo, hi) ==
    IF lo > hi THEN <<>>
    ELSE IF lo = hi THEN OracleBlock(marked[lo])
    ELSE LET mid == (lo + hi) \div 2
         IN  BlocksBetween(marked, lo, mid) \o BlocksBetween(marked, mid + 1, hi)

\* the blocks of the first k targets, in list order
OracleBlocks(marked, k) == BlocksBetween(marked, 1, k)

RECURSIVE Repeat(_, _)
Repeat(s, k) == IF k = 0 THEN <<>> ELSE Repeat(s, k - 1) \o s

\* build_grover_circuit(amplitudes, marked), for a list none of whose
\* targets raises
FullCircuit(marked) ==
    <<Initialize>>
    \o Repeat(OracleBlocks(marked, Len(marked)) \o Diffusion,
              Iterations(Len(marked)))
    \o Measurements

\* the step-by-step build returns what the function says
BuildMatchesFullCircuit ==
    pc = "done" => qc = FullCircuit(marked_indices)

----------------------------------------------------------------------------
(* One oracle block (lines 47-56) applied, gate by gate, to a basis state  *)

\* the probed targets lie in [0, 2**n_qubits): the low ones and their
\* bitwise complements
ProbeTargets == (0..MaxProbe) \cup {size - 1 - t : t \in 0..MaxProbe}

BuildIdle ==
    /\ marked_indices = <<>> /\ qc = <<>> /\ M = 0 /\ iterations = 0
    /\ it = 0 /\ tix = 0 /\ flipped = {}

InitOracle ==
    /\ pc = "probe"
    /\ BuildIdle
    /\ target \in ProbeTargets
    /\ basis \in 0..(size - 1)
    /\ block = OracleBlock(target)
    /\ gix = 0
    /\ psi = [b \in {basis} |-> 1]

\* qc.x(i), lines 50 and 56
GateX ==
    /\ pc = "probe"
    /\ gix < Len(block)
    /\ block[gix + 1].op = "x"
    /\ psi' = ApplyX(psi, block[gix + 1].qubits[1])
    /\ gix' = gix + 1
    /\ UNCHANGED <<buildVars, target, basis, block>>

\* qc.h(n_qubits - 1), lines 51 and 53
GateH ==
    /\ pc = "probe"
    /\ gix < Len(block)
    /\ block[gix + 1].op = "h"
    /\ psi' = ApplyH(psi, block[gix + 1].qubits[1])
    /\ gix' = gix + 1
    /\ UNCHANGED <<buildVars, target, basis, block>>

\* qc.mcx(list(range(n_qubits - 1)), n_qubits - 1), line 52
GateMCX ==
    /\ pc = "probe"
    /\ gix < Len(block)
    /\ block[gix + 1].op = "mcx"
    /\ psi' = ApplyMCX(psi, block[gix + 1].qubits)
    /\ gix' = gix + 1
    /\ UNCHANGED <<buildVars, target, basis, block>>

NextOracle == GateX \/ GateH \/ GateMCX

SpecOracle == InitOracle /\ [][NextOracle]_vars

----------------------------------------------------------------------------
ZeroBitQubits(t) == SelectSeq(Range(n_qubits), LAMBDA i : BitOf(t, i) = 0)

ClaimedOracleBlock(t) ==
    LET xs == [k \in 1..Len(ZeroBitQubits(t)) |-> X(ZeroBitQubits(t)[k])]
    IN  xs \o <<H(n_qubits - 1), MCX(Range(n_qubits - 1), n_qubits - 1),
                H(n_qubits - 1)>> \o xs

\* C8: the oracle block emitted for an in-range target t is X on each qubit
\* whose bit of t is 0 (qubit 0 least significant), then H, MCX, H on the
\* last qubit, then the same X gates; applied to any basis state b it gives
\* b back (the register is restored), with the sign flipped exactly when
\* b = t.  Amplitudes are doubled by the two unnormalised H.
OracleFlipsExactlyTarget ==
    pc = "probe" =>
        /\ block = ClaimedOracleBlock(target)
        /\ gix = Len(block) =>
               psi = [b \in {basis} |-> IF basis = target THEN -2 ELSE 2]

OracleAppliedToTarget ==
    /\ pc = "probe" /\ gix = Len(block) /\ basis = target
    /\ Len(block) > 3
    /\ psi = [b \in {basis} |-> -2]

----------------------------------------------------------------------------
(* Claims about build_grover_circuit                                       *)

Built == pc \in {"loop", "raised", "done"}

InRange(v) == 0 <= v /\ v < size

AllInRange(marked) == \A k \in 1..Len(marked) : InRange(marked[k])

Distinct(marked) == {marked[k] : k \in 1..Len(marked)}

\* floor(pi/4 * sqrt(2^n / m)) for m >= 1
FloorQuarterPiSqrt(m) == FloorSearch(0, m)

\* C1: with 0 < |M| <= 2^n - 1 marked states the build runs
\* floor(pi/4 * sqrt(2^n / |M|)) iterations, and at least 1.
IterationsClampedToOne ==
    (Built /\ 0 < Len(marked_indices) /\ Len(marked_indices) <= size - 1)
        => iterations = Max(1, FloorQuarterPiSqrt(Len(marked_indices)))

IsGate(g) == g.op \in {"x", "h", "mcx"}

\* C2: with no marked state the build runs 0 iterations and the circuit holds
\* only the initial superposition step and the n measurements.
EmptyMarkedRunsNoIteration ==
    (Built /\ marked_indices = <<>>)
        => /\ iterations = 0
           /\ \A k \in 1..Len(qc) : ~IsGate(qc[k])
           /\ pc = "done" => qc = <<Initialize>> \o Measurements

\* C3: a marked index outside [0, 2^n) makes the build fail before any gate
\* is appended; no circuit is returned for such an input.
OutOfRangeFailsFast ==
    ~AllInRange(marked_indices)
        => /\ pc # "done"
           /\ \A k \in 1..Len(qc) : ~IsGate(qc[k])

Count(marked, v) == Cardinality({k \in 1..Len(marked) : marked[k] = v})

IsReordering(a, b) ==
    /\ Len(a) = Len(b)
    /\ \A v \in Distinct(a) \cup Distinct(b) : Count(a, v) = Count(b, v)

\* C4: the same marked values given in another order yield the identical
\* gate sequence.
InputOrderIrrelevant ==
    (pc = "done" /\ AllInRange(marked_indices))
        => \A other \in ShortLists :
               IsReordering(other, marked_indices) => FullCircuit(other) = qc

\* C5: the iteration count and the set of basis states whose phase one
\* iteration's oracle flips depend only on the set of distinct marked values.
DuplicatesHaveNoEffect ==
    (pc = "loop" /\ AllInRange(marked_indices))
        => /\ iterations = Iterations(Cardinality(Distinct(marked_indices)))
           /\ (it < iterations /\ tix = Len(marked_indices))
                  => flipped = Distinct(marked_indices)

ZeroBits(t) == Cardinality({i \in 0..(n_qubits - 1) : BitOf(t, i) = 0})

RECURSIVE GateCountBetween(_, _, _)
\* sum over the targets marked[lo..hi] of 2 * zero bits + 3
GateCountBetween(marked, lo, hi) ==
    IF lo > hi THEN 0
    ELSE IF lo = hi THEN 2 * ZeroBits(marked[lo]) + 3
    ELSE LET mid == (lo + hi) \div 2
         IN  GateCountBetween(marked, lo, mid)
             + GateCountBetween(marked, mid + 1, hi)

OracleGateCount(marked, k) == GateCountBetween(marked, 1, k)

PerIterationCount(marked) ==
    OracleGateCount(marked, Len(marked)) + 4 * n_qubits + 3

ScriptRunsSevenIterations ==
    (Built /\ n_qubits = 10 /\ marked_indices = Range(50)) => iterations = 7

EveryQubit(op) == [i \in 1..n_qubits |-> Instr(op, <<i - 1>>, <<>>)]

ClaimedDiffusion ==
    EveryQubit("h") \o EveryQubit("x")
    \o <<Instr("h", <<n_qubits - 1>>, <<>>),
         Instr("mcx", Range(n_qubits), <<>>),
         Instr("h", <<n_qubits - 1>>, <<>>)>>
    \o EveryQubit("x") \o EveryQubit("h")

\* C9: each iteration emits the diffusion operator exactly once, after the
\* oracle blocks of all its targets and before the next iteration's blocks,
\* as H on every qubit, X on every qubit, H, MCX, H on the last qubit, X on
\* every qubit, H on every qubit: whatever follows the initialize
\* instruction is the completed iterations, each the oracle blocks followed
\* by that sequence, then the blocks emitted so far in the running one.
DiffusionOncePerIteration ==
    pc \in {"loop", "done"}
        => qc = <<Initialize>>
                \o Repeat(OracleBlocks(marked_indices, Len(marked_indices))
                          \o ClaimedDiffusion, it)
                \o OracleBlocks(marked_indices, tix)
                \o (IF pc = "done" THEN Measurements ELSE <<>>)

DiffusionBetweenIterations ==
    /\ pc = "loop" /\ it = 2 /\ tix = 1 /\ Len(marked_indices) = 2
    /\ AllInRange(marked_indices)
    /\ it < iterations

====
